---- MODULE Spec2Model ----
(***************************************************************************)
(* A model of nano_libc.c: strcpy, debug_puts and __assert_fail.           *)
(*                                                                         *)
(* Memory is a set of objects: the caller's writable array "buf" of        *)
(* MemSize bytes, and read-only string literals (the four literals of      *)
(* __assert_fail, and the literals an assertion site passes for the        *)
(* expression, the file and the function).  A pointer names its object and *)
(* an offset into it.  One step of the model is one C statement or one     *)
(* loop iteration of the function being run.  Dereferencing a pointer      *)
(* outside its object is undefined behaviour and is modelled as a step to  *)
(* the terminal state "undefined" with a nondeterministic effect on what   *)
(* the function could have touched.                                        *)
(***************************************************************************)
EXTENDS Integers, Sequences, FiniteSets

VARIABLES
  KernelPrinting,  \* the build flag (#ifdef KernelPrinting), fixed for a run
  buf,             \* the caller's byte array, [0..MemSize-1 -> byte]
  buf0,            \* buf as it was when the current call was made
  pc,              \* where control is
  fn,              \* the function the caller invoked ("none" before a call)
  args,            \* the arguments of that call
  s1, s2, rc,      \* strcpy's parameters (advanced by the loop) and its local
  s,               \* debug_puts' parameter (advanced by the loop)
  stage,           \* __assert_fail: number of debug_puts calls completed
  out,             \* the characters passed to seL4_DebugPutChar, in call order
  retval,          \* the value strcpy returned to the caller
  calls            \* number of strcpy calls the caller has made

vars == <<KernelPrinting, buf, buf0, pc, fn, args, s1, s2, rc, s, stage, out,
          retval, calls>>

----------------------------------------------------------------------------
(* Bounds of the model. *)

MemSize == 5
MaxCalls == 2
MaxStr == 2

(* The byte values the caller's array may hold: the terminator and the
   character 'x'. *)
InputBytes == {0, 120}

(* The characters of an assertion site's literals: 'x' and 'y'. *)
SiteChars == {120, 121}

(* The line numbers a call site may pass. *)
Lines == {7, 42}

----------------------------------------------------------------------------
(* Objects and pointers. *)

\* The string literals of __assert_fail, as the compiler lays them out:
\* the characters followed by the zero terminator.
LitAssert == <<65, 83, 83, 69, 82, 84, 32, 0>>   \* "ASSERT "
LitIn == <<32, 105, 110, 32, 0>>                 \* " in "
LitAt == <<32, 97, 116, 32, 0>>                  \* " at "
LitLine == <<58, 63, 63, 0>>                     \* ":??"

\* The literals an assertion site passes (#expr, __FILE__, __func__): every
\* string of at most MaxStr characters, laid out with its terminator.
SiteLiterals ==
  {q \o <<0>> : q \in UNION {[1..k -> SiteChars] : k \in 0..MaxStr}}

\* A pointer: the kind of object it points into, the contents of the
\* object when it is a literal, and the offset.
BufPtr(i) == [kind |-> "buf", lit |-> <<>>, off |-> i]
LitPtr(q) == [kind |-> "lit", lit |-> q, off |-> 0]

\* The null pointer stands for "not set".
NoPtr == [kind |-> "null", lit |-> <<>>, off |-> 0]

\* Pointers into the caller's array.
BufPtrs == {BufPtr(i) : i \in 0..(MemSize - 1)}

\* Pointers to the literals of an assertion site.
SitePtrs == {LitPtr(q) : q \in SiteLiterals}

\* The strings a caller passes to strcpy (as the source) and to debug_puts:
\* a pointer into its array, or a string literal.
StringPtrs == BufPtrs \cup SitePtrs

ObjSize(p) == IF p.kind = "buf" THEN MemSize ELSE Len(p.lit)

Inc(p) == [p EXCEPT !.off = @ + 1]

InBounds(p) == p.kind # "null" /\ p.off \in 0..(ObjSize(p) - 1)

Writable(p) == p.kind = "buf" /\ InBounds(p)

\* *p in memory m (m is the contents of "buf").
Deref(m, p) == IF p.kind = "buf" THEN m[p.off] ELSE p.lit[p.off + 1]

Memory == [0..(MemSize - 1) -> InputBytes]

NoArgs == [dest |-> NoPtr, src |-> NoPtr, str |-> NoPtr,
           expr |-> NoPtr, file |-> NoPtr, line |-> 0, func |-> NoPtr]

----------------------------------------------------------------------------
(* Strings: what "null-terminated sequence" means for a pointer. *)

\* The pointer into p's object at offset j.
At(p, j) == [p EXCEPT !.off = j]

Terminated(m, p) ==
  InBounds(p) /\ \E j \in p.off..(ObjSize(p) - 1) : Deref(m, At(p, j)) = 0

\* Number of bytes before the first zero byte at or after p.
StrLen(m, p) ==
  (CHOOSE j \in p.off..(ObjSize(p) - 1) :
     /\ Deref(m, At(p, j)) = 0
     /\ \A i \in p.off..(j - 1) : Deref(m, At(p, i)) # 0) - p.off

\* The bytes before the terminator, as a sequence.
CStr(m, p) == [i \in 1..StrLen(m, p) |-> Deref(m, At(p, p.off + i - 1))]

----------------------------------------------------------------------------
\* Before any call: the build flag is either way, the caller's array is
\* zero-initialised, nothing has been emitted.
Init ==
  /\ KernelPrinting \in BOOLEAN
  /\ buf = [i \in 0..(MemSize - 1) |-> 0]
  /\ buf0 = buf
  /\ pc = "caller"
  /\ fn = "none"
  /\ args = NoArgs
  /\ s1 = NoPtr /\ s2 = NoPtr /\ rc = NoPtr
  /\ s = NoPtr
  /\ stage = 0
  /\ out = <<>>
  /\ retval = NoPtr
  /\ calls = 0

----------------------------------------------------------------------------
(* The caller *)

\* The caller writes its array before handing pointers into it to strcpy or
\* debug_puts.  (__assert_fail is given literals and never reads the array,
\* so the model calls it with the array as it is initially.)
CallerFills ==
  /\ pc = "caller"
  /\ buf' \in Memory
  /\ buf0' = buf'
  /\ pc' = "filled"
  /\ UNCHANGED <<KernelPrinting, fn, args, s1, s2, rc, s, stage, out, retval, calls>>

----------------------------------------------------------------------------
(* strcpy *)

\* The caller invokes strcpy(d, src); line 7: char * rc = s1;
EnterStrcpy(d, src) ==
  /\ fn' = "strcpy"
  /\ args' = [NoArgs EXCEPT !.dest = d, !.src = src]
  /\ buf0' = buf
  /\ s1' = d /\ s2' = src /\ rc' = d
  /\ retval' = NoPtr
  /\ calls' = calls + 1
  /\ pc' = "strcpy_loop"
  /\ UNCHANGED <<KernelPrinting, buf, s, stage, out>>

CallStrcpy ==
  /\ pc = "filled"
  /\ \E d \in BufPtrs, src \in StringPtrs : EnterStrcpy(d, src)

\* The caller passes the value a strcpy returned as the destination of the next.
ChainStrcpy ==
  /\ pc = "returned" /\ fn = "strcpy"
  /\ calls < MaxCalls
  /\ \E src \in StringPtrs : EnterStrcpy(retval, src)

\* Mutant of StrcpyStep: after copying the terminator, the byte after it in
\* the destination is cleared as well (one write too many).
StrcpyStep_WritesPastTerminator ==
  /\ pc = "strcpy_loop"
  /\ InBounds(s2) /\ Writable(s1)
  /\ LET c == Deref(buf, s2) IN
       /\ buf' = [i \in 0..(MemSize - 1) |->
                    IF i = s1.off THEN c
                    ELSE IF c = 0 /\ i = s1.off + 1 THEN 0
                    ELSE buf[i]]
       /\ s1' = Inc(s1)
       /\ s2' = Inc(s2)
       /\ pc' = IF c # 0 THEN "strcpy_loop" ELSE "strcpy_ret"
  /\ UNCHANGED <<KernelPrinting, buf0, fn, args, rc, s, stage, out, retval, calls>>

\* Mutant of StrcpyStep: the loop tests the advanced pointer instead of the
\* value assigned, so it does not stop at the terminator.
StrcpyStep_NoStop ==
  /\ pc = "strcpy_loop"
  /\ InBounds(s2) /\ Writable(s1)
  /\ buf' = [buf EXCEPT ![s1.off] = Deref(buf, s2)]
  /\ s1' = Inc(s1)
  /\ s2' = Inc(s2)
  /\ UNCHANGED <<KernelPrinting, buf0, pc, fn, args, rc, s, stage, out, retval, calls>>

\* Line 8, one iteration: *s1++ = *s2++, then the test of the value assigned.
StrcpyStep ==
  /\ pc = "strcpy_loop"
  /\ InBounds(s2) /\ Writable(s1)
  /\ LET c == Deref(buf, s2) IN
       /\ buf' = [buf EXCEPT ![s1.off] = c]
       /\ s1' = Inc(s1)
       /\ s2' = Inc(s2)
       /\ pc' = IF c # 0 THEN "strcpy_loop" ELSE "strcpy_ret"
  /\ UNCHANGED <<KernelPrinting, buf0, fn, args, rc, s, stage, out, retval, calls>>

\* Line 8 with s1 or s2 outside the array: undefined behaviour.  Control
\* never comes back to a known place of strcpy, so its variables are
\* forgotten.
StrcpyUndefined ==
  /\ pc = "strcpy_loop"
  /\ ~(InBounds(s2) /\ Writable(s1))
  /\ pc' = "undefined"
  /\ buf0' = buf
  /\ args' = NoArgs
  /\ s1' = NoPtr /\ s2' = NoPtr /\ rc' = NoPtr
  /\ retval' = NoPtr
  /\ UNCHANGED <<KernelPrinting, buf, fn, s, stage, out, calls>>

\* After strcpy's undefined behaviour nothing is known about the array: it
\* may be overwritten with anything, any number of times.
StrcpyUndefinedEffect ==
  /\ pc = "undefined" /\ fn = "strcpy"
  /\ buf' \in Memory
  /\ buf0' = buf'
  /\ UNCHANGED <<KernelPrinting, pc, fn, args, s1, s2, rc, s, stage, out, retval, calls>>

\* Mutant of StrcpyReturn: the advanced pointer s1 is returned instead of rc.
StrcpyReturn_AdvancedPointer ==
  /\ pc = "strcpy_ret"
  /\ retval' = s1
  /\ pc' = "returned"
  /\ UNCHANGED <<KernelPrinting, buf, buf0, fn, args, s1, s2, rc, s, stage, out, calls>>

\* Line 9: return rc;
StrcpyReturn ==
  /\ pc = "strcpy_ret"
  /\ retval' = rc
  /\ pc' = "returned"
  /\ UNCHANGED <<KernelPrinting, buf, buf0, fn, args, s1, s2, rc, s, stage, out, calls>>

----------------------------------------------------------------------------
(* debug_puts *)

\* Control leaves debug_puts: back into __assert_fail after the call it made,
\* or back to the caller.
PutsReturnPc == IF fn = "__assert_fail" THEN "assert" ELSE "returned"

\* The caller invokes debug_puts(p).
CallDebugPuts ==
  /\ pc = "filled"
  /\ \E p \in StringPtrs :
       /\ fn' = "debug_puts"
       /\ args' = [NoArgs EXCEPT !.str = p]
       /\ s' = p
  /\ pc' = "puts_loop"
  /\ UNCHANGED <<KernelPrinting, buf, buf0, s1, s2, rc, stage, out, retval, calls>>

\* Mutant of PutsEmit: the loop is not under #ifdef KernelPrinting.
PutsEmit_IgnoresFlag ==
  /\ pc = "puts_loop"
  /\ InBounds(s)
  /\ Deref(buf, s) # 0
  /\ out' = Append(out, Deref(buf, s))
  /\ s' = Inc(s)
  /\ UNCHANGED <<KernelPrinting, buf, buf0, pc, fn, args, s1, s2, rc, stage, retval, calls>>

\* Mutant of PutsEmit: seL4_DebugPutChar(*++s), the byte after the one tested.
PutsEmit_PreIncrement ==
  /\ pc = "puts_loop"
  /\ KernelPrinting
  /\ InBounds(s)
  /\ Deref(buf, s) # 0
  /\ out' = Append(out, IF InBounds(Inc(s)) THEN Deref(buf, Inc(s)) ELSE 0)
  /\ s' = Inc(s)
  /\ UNCHANGED <<KernelPrinting, buf, buf0, pc, fn, args, s1, s2, rc, stage, retval, calls>>

\* Lines 15-16, one iteration: *s != '\0', then seL4_DebugPutChar(*s++).
PutsEmit ==
  /\ pc = "puts_loop"
  /\ KernelPrinting
  /\ InBounds(s)
  /\ Deref(buf, s) # 0
  /\ out' = Append(out, Deref(buf, s))
  /\ s' = Inc(s)
  /\ UNCHANGED <<KernelPrinting, buf, buf0, pc, fn, args, s1, s2, rc, stage, retval, calls>>

\* Lines 15 and 19: the loop test fails (or the loop is compiled out) and
\* debug_puts returns.
PutsReturn ==
  /\ pc = "puts_loop"
  /\ KernelPrinting => (InBounds(s) /\ Deref(buf, s) = 0)
  /\ pc' = PutsReturnPc
  /\ stage' = IF fn = "__assert_fail" THEN stage + 1 ELSE stage
  /\ UNCHANGED <<KernelPrinting, buf, buf0, fn, args, s1, s2, rc, s, out, retval, calls>>

\* Line 15 with s outside its object: undefined behaviour.  The read may
\* yield any byte, which may or may not be sent on; control never comes back
\* to a known place, so the call's variables are forgotten.
PutsUndefined ==
  /\ pc = "puts_loop"
  /\ KernelPrinting
  /\ ~InBounds(s)
  /\ pc' = "undefined"
  /\ out' \in {out} \cup {Append(out, b) : b \in InputBytes}
  /\ args' = NoArgs
  /\ s' = NoPtr
  /\ stage' = 0
  /\ UNCHANGED <<KernelPrinting, buf, buf0, fn, s1, s2, rc, retval, calls>>

----------------------------------------------------------------------------
(* __assert_fail *)

\* Number of debug_puts calls __assert_fail makes (lines 25-31).
NumPuts == 7

\* Mutant of AssertArg: the function name and the file path are swapped.
AssertArg_SwapsFileAndFunc(k, a) ==
  CASE k = 0 -> LitPtr(LitAssert)
    [] k = 1 -> a.expr
    [] k = 2 -> LitPtr(LitIn)
    [] k = 3 -> a.file
    [] k = 4 -> LitPtr(LitAt)
    [] k = 5 -> a.func
    [] k = 6 -> LitPtr(LitLine)

\* Mutant of AssertArg: the placeholder is printed in full only for line
\* numbers of two digits or more; otherwise only the colon's place is kept
\* (the pointer is moved to the end of the literal).
AssertArg_DependsOnLine(k, a) ==
  CASE k = 0 -> LitPtr(LitAssert)
    [] k = 1 -> a.expr
    [] k = 2 -> LitPtr(LitIn)
    [] k = 3 -> a.func
    [] k = 4 -> LitPtr(LitAt)
    [] k = 5 -> a.file
    [] k = 6 -> IF a.line >= 10 THEN LitPtr(LitLine) ELSE At(LitPtr(LitLine), 3)

\* The argument of the k-th debug_puts call (k = 0 for line 25), given the
\* arguments a of __assert_fail.
AssertArg(k, a) ==
  CASE k = 0 -> LitPtr(LitAssert)
    [] k = 1 -> a.expr
    [] k = 2 -> LitPtr(LitIn)
    [] k = 3 -> a.func
    [] k = 4 -> LitPtr(LitAt)
    [] k = 5 -> a.file
    [] k = 6 -> LitPtr(LitLine)

\* Mutant of CallAssertFail: an empty expression or function name is
\* rejected, the handler returning at once.
CallAssertFail_RejectsEmpty ==
  /\ pc = "caller"
  /\ \E e \in SitePtrs, f \in SitePtrs, l \in Lines, g \in SitePtrs :
       /\ args' = [NoArgs EXCEPT !.expr = e, !.file = f, !.line = l, !.func = g]
       /\ pc' = IF Deref(buf, e) = 0 \/ Deref(buf, g) = 0 THEN "returned" ELSE "assert"
  /\ fn' = "__assert_fail"
  /\ stage' = 0
  /\ UNCHANGED <<KernelPrinting, buf, buf0, s1, s2, rc, s, out, retval, calls>>

\* The caller invokes __assert_fail(expr, file, line, func); line 23.
CallAssertFail ==
  /\ pc = "caller"
  /\ \E e \in SitePtrs, f \in SitePtrs, l \in Lines, g \in SitePtrs :
       args' = [NoArgs EXCEPT !.expr = e, !.file = f, !.line = l, !.func = g]
  /\ fn' = "__assert_fail"
  /\ stage' = 0
  /\ pc' = "assert"
  /\ UNCHANGED <<KernelPrinting, buf, buf0, s1, s2, rc, s, out, retval, calls>>

\* Lines 25-31: the next debug_puts call.
AssertPuts ==
  /\ pc = "assert"
  /\ stage < NumPuts
  /\ s' = AssertArg(stage, args)
  /\ pc' = "puts_loop"
  /\ UNCHANGED <<KernelPrinting, buf, buf0, fn, args, s1, s2, rc, stage, out, retval, calls>>

\* Mutant of AssertTrap: the trap is missing, the handler returns.
AssertTrap_Returns ==
  /\ pc = "assert"
  /\ stage = NumPuts
  /\ pc' = "returned"
  /\ UNCHANGED <<KernelPrinting, buf, buf0, fn, args, s1, s2, rc, s, stage, out, retval, calls>>

\* Mutant of AssertTrap: the trap is reached one debug_puts call early.
AssertTrap_Early ==
  /\ pc = "assert"
  /\ stage >= NumPuts - 1
  /\ pc' = "halted"
  /\ UNCHANGED <<KernelPrinting, buf, buf0, fn, args, s1, s2, rc, s, stage, out, retval, calls>>

\* Line 33: __builtin_trap().
AssertTrap ==
  /\ pc = "assert"
  /\ stage = NumPuts
  /\ pc' = "halted"
  /\ UNCHANGED <<KernelPrinting, buf, buf0, fn, args, s1, s2, rc, s, stage, out, retval, calls>>

----------------------------------------------------------------------------
(* What the functions emit, as functions of their arguments. *)

\* The characters debug_puts(p) passes to seL4_DebugPutChar with the build
\* flag kp and memory m, for a terminated p (lines 14-18).
RECURSIVE PutsEmits(_, _, _)
PutsEmits(kp, m, p) ==
  IF ~kp THEN <<>>
  ELSE IF Deref(m, p) # 0 THEN <<Deref(m, p)>> \o PutsEmits(kp, m, Inc(p))
  ELSE <<>>

\* The characters the debug_puts calls number k and later of __assert_fail
\* emit (lines 25-31).
RECURSIVE AssertEmitsFrom(_, _, _, _)
AssertEmitsFrom(k, kp, m, a) ==
  IF k >= NumPuts THEN <<>>
  ELSE PutsEmits(kp, m, AssertArg(k, a)) \o AssertEmitsFrom(k + 1, kp, m, a)

AssertEmits(kp, m, a) == AssertEmitsFrom(0, kp, m, a)

----------------------------------------------------------------------------
Next ==
  \/ CallerFills
  \/ CallStrcpy
  \/ ChainStrcpy
  \/ StrcpyStep
  \/ StrcpyUndefined
  \/ StrcpyUndefinedEffect
  \/ StrcpyReturn
  \/ CallDebugPuts
  \/ PutsEmit
  \/ PutsReturn
  \/ PutsUndefined
  \/ CallAssertFail
  \/ AssertPuts
  \/ AssertTrap

Spec == Init /\ [][Next]_vars

\* The code runs on one core with nothing to preempt or suspend it: whenever
\* a next statement exists, it is executed.
FairSpec == Spec /\ WF_vars(Next)

----------------------------------------------------------------------------
(* strcpy: the caller's obligations, and the claims about it. *)

\* Length of the source of the current strcpy call, terminator included.
SrcLen == StrLen(buf0, args.src) + 1

\* Byte i of the source of the current strcpy call, in memory m.
SrcByte(m, i) == Deref(m, At(args.src, args.src.off + i))

\* The preconditions of strcpy for the current call, on the memory the call
\* was made with: the source is terminated, the destination has room for it,
\* and the two ranges do not overlap (a literal never overlaps the array).
StrcpyPre ==
  /\ fn = "strcpy"
  /\ pc \in {"strcpy_loop", "strcpy_ret", "returned"}
  /\ Terminated(buf0, args.src)
  /\ args.dest.off + SrcLen <= MemSize
  /\ args.src.kind = "buf" =>
       \/ args.dest.off + SrcLen <= args.src.off
       \/ args.src.off + SrcLen <= args.dest.off

\* C1: when strcpy(dest, S) has returned from a call that met its
\* preconditions, dest[0..n-1] equals S[0..n-1] as it was at the call
\* (terminator at index n-1 included), and the value returned is the
\* destination's start address: a pointer into the array that a further
\* strcpy can take as its destination.
C1_StrcpyCopiesAndReturnsDest ==
  (StrcpyPre /\ pc = "returned") =>
    /\ \A i \in 0..(SrcLen - 1) : buf[args.dest.off + i] = SrcByte(buf0, i)
    /\ buf[args.dest.off + SrcLen - 1] = 0
    /\ \A i \in 0..(SrcLen - 2) : buf[args.dest.off + i] # 0
    /\ retval = args.dest
    /\ retval \in BufPtrs

\* A second strcpy, made on the value the first returned, has returned after
\* copying a non-empty string from elsewhere in the array.
C1_Witness ==
  /\ StrcpyPre /\ pc = "returned" /\ calls = 2
  /\ args.src.kind = "buf" /\ SrcLen >= 2

\* C9: during and after a strcpy call that met its preconditions, every
\* byte of the array outside dest[0..n-1] (the source's bytes among them)
\* has the value it had at the call, nothing has been emitted, and the state
\* of the other functions is untouched.
C9_StrcpyFrame ==
  StrcpyPre =>
    /\ \A i \in 0..(MemSize - 1) :
         (i < args.dest.off \/ i >= args.dest.off + SrcLen) => buf[i] = buf0[i]
    /\ \A i \in 0..(SrcLen - 1) : SrcByte(buf, i) = SrcByte(buf0, i)
    /\ out = <<>>
    /\ s = NoPtr /\ stage = 0

\* A strcpy that met its preconditions has returned, and a non-zero byte
\* lies right after the copy in the destination.
C9_Witness ==
  /\ StrcpyPre /\ pc = "returned"
  /\ args.dest.off + SrcLen < MemSize
  /\ buf[args.dest.off + SrcLen] # 0

----------------------------------------------------------------------------
(* debug_puts *)

\* The argument of the current debug_puts call is a terminated string.
PutsPre ==
  /\ fn = "debug_puts"
  /\ pc \in {"puts_loop", "returned"}
  /\ Terminated(buf, args.str)

\* C10: on terminated inputs strcpy and debug_puts run to completion.
\* strcpy never reads or writes at index n or beyond, has made exactly n
\* byte copies when it leaves the loop, and returns; debug_puts never moves
\* past the terminator, stands on it when it returns, and returns.
C10_Termination ==
  /\ [](StrcpyPre =>
          /\ s1.off - args.dest.off = s2.off - args.src.off
          /\ s2.off - args.src.off <= SrcLen
          /\ pc = "strcpy_loop" => s2.off - args.src.off < SrcLen
          /\ pc # "strcpy_loop" => s2.off - args.src.off = SrcLen)
  /\ [](PutsPre =>
          /\ s.off - args.str.off <= StrLen(buf, args.str)
          /\ (pc = "returned" /\ KernelPrinting) =>
                s.off - args.str.off = StrLen(buf, args.str))
  /\ (StrcpyPre /\ pc = "strcpy_loop") ~> (pc = "returned")
  /\ (PutsPre /\ pc = "puts_loop") ~> (pc = "returned")

\* A strcpy of the literal "xy" has returned.
C10_Witness ==
  /\ StrcpyPre /\ pc = "returned"
  /\ args.src = LitPtr(<<120, 121, 0>>)
  /\ s1.off - args.dest.off = 3

\* C5: with KernelPrinting enabled, debug_puts(s) on a terminated s with k
\* bytes before the terminator has, at every moment, emitted exactly the
\* bytes s[0..j-1] it has walked over, in index order; on return j = k, so
\* exactly k calls were made; a zero byte is never emitted.
C5_PutsEmitsString ==
  (PutsPre /\ KernelPrinting) =>
    /\ Len(out) = s.off - args.str.off
    /\ \A i \in 1..Len(out) :
         out[i] = Deref(buf, At(args.str, args.str.off + i - 1)) /\ out[i] # 0
    /\ pc = "returned" =>
         /\ Len(out) = StrLen(buf, args.str)
         /\ out = CStr(buf, args.str)
         /\ Deref(buf, At(args.str, args.str.off + Len(out))) = 0

\* debug_puts has returned after emitting the two characters of "xy".
C5_Witness ==
  PutsPre /\ KernelPrinting /\ pc = "returned" /\ out = <<120, 121>>

\* C4: with KernelPrinting disabled nothing is ever passed to
\* seL4_DebugPutChar: in every state the sequence of emitted characters is
\* empty, whatever was called with whatever strings.
C4_NoOutputWhenDisabled ==
  ~KernelPrinting => (out = <<>> /\ Len(out) = 0)

\* __assert_fail has halted without printing, its expression non-empty.
C4_Witness ==
  /\ ~KernelPrinting /\ fn = "__assert_fail" /\ pc = "halted"
  /\ Deref(buf, args.expr) # 0

----------------------------------------------------------------------------
(* __assert_fail *)

\* The current call is __assert_fail, on terminated strings.
AssertPre ==
  /\ fn = "__assert_fail"
  /\ pc \in {"assert", "puts_loop", "halted", "returned"}
  /\ Terminated(buf, args.expr)
  /\ Terminated(buf, args.file)
  /\ Terminated(buf, args.func)

\* The characters of the diagnostic line, written out.
MarkerChars == <<65, 83, 83, 69, 82, 84, 32>>   \* ASSERT and a space
InChars == <<32, 105, 110, 32>>                 \* in, between spaces
AtChars == <<32, 97, 116, 32>>                  \* at, between spaces
PlaceholderChars == <<58, 63, 63>>              \* a colon and two question marks

\* The last n elements of the sequence q.
Last(q, n) == SubSeq(q, Len(q) - n + 1, Len(q))

\* C2: a call of __assert_fail on terminated strings, with either setting
\* of KernelPrinting, is never back at its caller; it reaches the trap; and
\* once halted no step is taken at all.
C2_AssertNeverReturns ==
  /\ [](AssertPre => pc \in {"assert", "puts_loop", "halted"})
  /\ [][pc # "halted"]_vars
  /\ (AssertPre /\ pc = "assert" /\ stage = 0) ~> (pc = "halted")

\* __assert_fail has halted with line 42, with printing enabled.
C2_Witness ==
  AssertPre /\ pc = "halted" /\ KernelPrinting /\ args.line = 42

\* C3: with KernelPrinting enabled, when __assert_fail has halted the
\* characters emitted are exactly "ASSERT ", the expression, " in ", the
\* function name, " at ", the file path and ":??", in this order.
C3_AssertLine ==
  (AssertPre /\ KernelPrinting /\ pc = "halted") =>
    out = MarkerChars \o CStr(buf, args.expr) \o InChars \o CStr(buf, args.func)
            \o AtChars \o CStr(buf, args.file) \o PlaceholderChars

\* Halted after printing an expression, a function name and a file path that
\* all differ.
C3_Witness ==
  /\ AssertPre /\ KernelPrinting /\ pc = "halted"
  /\ CStr(buf, args.expr) = <<120>>
  /\ CStr(buf, args.func) = <<121, 120>>
  /\ CStr(buf, args.file) = <<120, 121>>

\* The current call of __assert_fail has an empty expression or an empty
\* function name.
EmptyFragment ==
  /\ fn = "__assert_fail"
  /\ pc \in {"assert", "puts_loop", "halted", "returned"}
  /\ Terminated(buf, args.expr) /\ Terminated(buf, args.file)
  /\ Terminated(buf, args.func)
  /\ StrLen(buf, args.expr) = 0 \/ StrLen(buf, args.func) = 0

\* C6: __assert_fail called with an empty expression and/or an empty
\* function name is not turned away (it is never back at the caller), halts,
\* and with printing enabled has emitted the marker, both separators and the
\* placeholder, with nothing between those that surround an empty fragment.
C6_EmptyFragmentsAccepted ==
  /\ [](EmptyFragment => pc # "returned")
  /\ [](EmptyFragment /\ pc = "halted" /\ KernelPrinting =>
          /\ SubSeq(out, 1, 7) = MarkerChars
          /\ Last(out, 3) = PlaceholderChars
          /\ StrLen(buf, args.expr) = 0 => SubSeq(out, 8, 11) = InChars
          /\ StrLen(buf, args.func) = 0 =>
                SubSeq(out, 8 + StrLen(buf, args.expr), 15 + StrLen(buf, args.expr))
                  = InChars \o AtChars
          /\ Len(out) = 18 + StrLen(buf, args.expr) + StrLen(buf, args.func)
                          + StrLen(buf, args.file))
  /\ (EmptyFragment /\ pc = "assert" /\ stage = 0) ~> (pc = "halted")

\* Halted with printing enabled, expression and function name both empty,
\* the file path not.
C6_Witness ==
  /\ EmptyFragment /\ pc = "halted" /\ KernelPrinting
  /\ StrLen(buf, args.expr) = 0 /\ StrLen(buf, args.func) = 0
  /\ StrLen(buf, args.file) > 0

\* C7: the line argument is never rendered.  What a call of __assert_fail
\* emits is the same for every line number passed with the same expr, file
\* and func; the halted run has emitted exactly that; and what it emitted
\* ends with the placeholder.
C7_LineNotRendered ==
  AssertPre =>
    /\ \A l \in Lines :
         AssertEmits(KernelPrinting, buf, [args EXCEPT !.line = l])
           = AssertEmits(KernelPrinting, buf, args)
    /\ pc = "halted" => out = AssertEmits(KernelPrinting, buf, args)
    /\ (pc = "halted" /\ KernelPrinting) => Last(out, 3) = PlaceholderChars
    /\ pc # "returned"

\* Halted with line 7, with printing enabled, after printing a non-empty
\* file path.
C7_Witness ==
  /\ AssertPre /\ pc = "halted" /\ KernelPrinting /\ args.line = 7
  /\ StrLen(buf, args.file) > 0

\* C8: with KernelPrinting enabled the trap comes after the whole line: the
\* step that halts starts with all seven debug_puts calls completed and the
\* whole line, placeholder last, already emitted, and emits nothing itself;
\* no step from a halted state emits anything.
C8_LineBeforeHalt ==
  /\ [][(KernelPrinting /\ pc # "halted" /\ pc' = "halted") =>
          /\ stage = NumPuts
          /\ Len(out) >= 18
          /\ Last(out, 3) = PlaceholderChars
          /\ out = AssertEmits(TRUE, buf, args)
          /\ out' = out]_vars
  /\ [][pc = "halted" => out' = out]_vars
  /\ [](KernelPrinting /\ pc = "puts_loop" /\ fn = "__assert_fail" => stage < NumPuts)

\* Halted with printing enabled after a line longer than its fixed parts.
C8_Witness ==
  fn = "__assert_fail" /\ pc = "halted" /\ KernelPrinting /\ Len(out) > 20

====
